---------------------------- MODULE Spec2Model ----------------------------
(***************************************************************************)
(* Model of the payment_receiver program (programs/payment_receiver/src/   *)
(* lib.rs): one PaymentState account, one system-owned vault, one          *)
(* PaymentRecord account per payment, and the four instructions            *)
(* initialize, receive_payment, withdraw and transfer_ownership.           *)
(*                                                                         *)
(* Every instruction is executed as the runtime executes it: the account   *)
(* constraints of its #[derive(Accounts)] struct first, in field order,    *)
(* then the handler body, and the whole instruction is discarded when      *)
(* either returns an error.  Lamports are scaled down to small numbers and *)
(* the u64 counter to the range 0..U64Max.  The bump fields are a function *)
(* of the account's address and carry no state of their own; they are left *)
(* out of the records.  Transaction fees are not charged; the rent of an   *)
(* account created by `init` is.                                           *)
(***************************************************************************)
EXTENDS Integers, FiniteSets, Sequences, TLC

\* ------------------------------------------------------------------ bounds
\* the largest value of the (scaled) u64 counter total_payments
U64Max == 2
\* the largest amount a caller passes to receive_payment
MaxAmount == 2
\* the largest value of the ledger clock
MaxClock == 1
\* the lamports each signer starts with
InitLamports == 3

\* --------------------------------------------------------------- constants
\* rent-exempt minimum of the PaymentState account (space = 8 + INIT_SPACE)
StateRent == 1
\* rent-exempt minimum of a PaymentRecord account (space = 8 + INIT_SPACE)
RecordRent == 1

\* Pubkey::default()
Null == "Null"
\* the keys somebody can sign with
Signers == {"A", "B"}
Pubkeys == Signers \cup {Null}

\* the program that owns an account
ProgramId == "payment_receiver"
SystemProgram == "system_program"

\* values of payment_state.total_payments, and so of the seed of a record
RecordIds == 0 .. U64Max
Amounts == 0 .. MaxAmount

\* an address at which no account has been created
NoAccount == [exists |-> FALSE]

\* Option::None of checked_add
None == -1

VARIABLES
    payment_state,   \* the PaymentState account at seeds [b"payment_state"]
    payment_record,  \* the PaymentRecord accounts, by the id their seed encodes
    vault,           \* lamports of the vault at seeds [b"vault", payment_state]
    lamports,        \* lamports of each signer's own account
    clock,           \* Clock::get()?.unix_timestamp
    last,            \* the last instruction executed and its result
    received,        \* history: sum of the amounts of the successful receive_payment
    withdrawn,       \* history: sum of the lamports moved by the successful withdraw
    ok_receives,     \* history: number of successful receive_payment
    scenario         \* history: how far the successful instructions so far are
                     \* initialize(a), then transfer_ownership to another key

vars == <<payment_state, payment_record, vault, lamports, clock, last,
          received, withdrawn, ok_receives, scenario>>

\* the accounts an instruction reads and writes
Accounts ==
    [payment_state |-> payment_state, payment_record |-> payment_record,
     vault |-> vault, lamports |-> lamports]

Outcome(res, st) == [res |-> res, st |-> st]

\* mutant: the seed computed with a wrapping add
checked_add_wrapping(a, b) == (a + b) % (U64Max + 1)

\* u64::checked_add
checked_add(a, b) == IF a + b > U64Max THEN None ELSE a + b

\* u64 += in a build without overflow checks (with them it panics instead;
\* the seed's checked_add has rejected the instruction before either happens)
wrapping_add(a, b) == (a + b) % (U64Max + 1)


\* mutant: the accounts written before the error are kept
Commit_keep(pre, out) == out.st

\* the runtime keeps the accounts an instruction wrote only when it returned
\* Ok(()); an Err (a failed constraint, require!, `?` or a panic) discards them
Commit(pre, out) == IF out.res = "Ok" THEN out.st ELSE pre

\* --------------------------------------------------------------- initialize
\* mutant: init_if_needed, which accepts an existing payment_state
InitializeAccounts_if_needed(st, payer) ==
    IF st.payment_state # NoAccount
    THEN Outcome("Ok", st)
    ELSE IF st.lamports[payer] < StateRent
    THEN Outcome("InsufficientFunds", st)
    ELSE Outcome("Ok", [st EXCEPT
            !.payment_state = [owner |-> Null, total_payments |-> 0],
            !.lamports[payer] = @ - StateRent])

\* #[derive(Accounts)] Initialize: `init` of payment_state, paid by payer
InitializeAccounts(st, payer) ==
    IF st.payment_state # NoAccount
    THEN Outcome("AccountAlreadyInUse", st)
    ELSE IF st.lamports[payer] < StateRent
    THEN Outcome("InsufficientFunds", st)
    ELSE Outcome("Ok", [st EXCEPT
            !.payment_state = [owner |-> Null, total_payments |-> 0],
            !.lamports[payer] = @ - StateRent])

\* fn initialize
initialize(st, owner) ==
    Outcome("Ok", [st EXCEPT !.payment_state.owner = owner,
                             !.payment_state.total_payments = 0])

InitializeIx(st, payer, owner) ==
    LET v == InitializeAccounts(st, payer)
    IN  IF v.res # "Ok" THEN v ELSE initialize(v.st, owner)

\* ---------------------------------------------------------- receive_payment
\* a PaymentRecord account right after `init`: allocated and zeroed
ZeroRecord == [payment_id |-> 0, payer |-> Null, amount |-> 0, timestamp |-> 0]

\* the seed of payment_record: payment_state.total_payments.checked_add(1).unwrap()
RecordSeed(st) == checked_add(st.payment_state.total_payments, 1)

\* mutant: the record's seed without the id, created with init_if_needed:
\* every payment addresses the one record derived from [b"payment"]
ReceivePaymentAccounts_single_record(st, payer, record_key) ==
    IF st.payment_state = NoAccount
    THEN Outcome("AccountNotInitialized", st)
    ELSE IF record_key # 1
    THEN Outcome("ConstraintSeeds", st)
    ELSE IF st.payment_record[record_key] # NoAccount
    THEN Outcome("Ok", st)
    ELSE IF st.lamports[payer] < RecordRent
    THEN Outcome("InsufficientFunds", st)
    ELSE Outcome("Ok", [st EXCEPT
            !.payment_record[record_key] =
                [payment_id |-> 0, payer |-> Null, amount |-> 0, timestamp |-> 0],
            !.lamports[payer] = @ - RecordRent])

\* mutant: payment_state declared init_if_needed in ReceivePayment: a payment
\* made before initialize creates the state account
ReceivePaymentAccounts_state_if_needed(st, payer, record_key) ==
    IF st.payment_state = NoAccount /\ st.lamports[payer] < StateRent
    THEN Outcome("InsufficientFunds", st)
    ELSE LET s0 == IF st.payment_state # NoAccount THEN st
                   ELSE [st EXCEPT
                           !.payment_state = [owner |-> Null, total_payments |-> 0],
                           !.lamports[payer] = @ - StateRent]
         IN  IF RecordSeed(s0) = None
             THEN Outcome("ProgramFailedToComplete", st)
             ELSE IF record_key # RecordSeed(s0)
             THEN Outcome("ConstraintSeeds", st)
             ELSE IF s0.payment_record[record_key] # NoAccount
             THEN Outcome("AccountAlreadyInUse", st)
             ELSE IF s0.lamports[payer] < RecordRent
             THEN Outcome("InsufficientFunds", st)
             ELSE Outcome("Ok", [s0 EXCEPT
                     !.payment_record[record_key] = ZeroRecord,
                     !.lamports[payer] = @ - RecordRent])

\* #[derive(Accounts)] ReceivePayment.  record_key is the id from which the
\* caller derived the address it passes as payment_record.
ReceivePaymentAccounts(st, payer, record_key) ==
    IF st.payment_state = NoAccount
    THEN Outcome("AccountNotInitialized", st)
    ELSE IF RecordSeed(st) = None
    THEN Outcome("ProgramFailedToComplete", st)
    ELSE IF record_key # RecordSeed(st)
    THEN Outcome("ConstraintSeeds", st)
    ELSE IF st.payment_record[record_key] # NoAccount
    THEN Outcome("AccountAlreadyInUse", st)
    ELSE IF st.lamports[payer] < RecordRent
    THEN Outcome("InsufficientFunds", st)
    ELSE Outcome("Ok", [st EXCEPT
            !.payment_record[record_key] = ZeroRecord,
            !.lamports[payer] = @ - RecordRent])

\* mutant: the transfer debits the payer and credits another account
system_transfer_elsewhere(st, payer, amount) ==
    IF st.lamports[payer] < amount
    THEN Outcome("InsufficientFunds", st)
    ELSE Outcome("Ok", [st EXCEPT !.lamports[payer] = @ - amount])

\* system_instruction::transfer(payer, vault, amount), invoked by the handler
system_transfer(st, payer, amount) ==
    IF st.lamports[payer] < amount
    THEN Outcome("InsufficientFunds", st)
    ELSE Outcome("Ok", [st EXCEPT !.lamports[payer] = @ - amount,
                                  !.vault = @ + amount])

\* mutant: payment_id taken from the counter before the increment
receive_payment_stale_id(st, payer, record_key, amount, now) ==
    LET s1 == [st EXCEPT !.payment_state.total_payments = (@ + 1) % (U64Max + 1)]
        s2 == [s1 EXCEPT !.payment_record[record_key] =
                  [payment_id |-> st.payment_state.total_payments,
                   payer      |-> payer,
                   amount     |-> amount,
                   timestamp  |-> now]]
    IN  IF s2.lamports[payer] < amount
        THEN Outcome("InsufficientFunds", s2)
        ELSE Outcome("Ok", [s2 EXCEPT !.lamports[payer] = @ - amount,
                                      !.vault = @ + amount])

\* mutant: payment_record.payer never assigned
receive_payment_no_payer(st, payer, record_key, amount, now) ==
    LET s1 == [st EXCEPT !.payment_state.total_payments = (@ + 1) % (U64Max + 1)]
        s2 == [s1 EXCEPT !.payment_record[record_key] =
                  [payment_id |-> s1.payment_state.total_payments,
                   payer      |-> Null,
                   amount     |-> amount,
                   timestamp  |-> now]]
    IN  IF s2.lamports[payer] < amount
        THEN Outcome("InsufficientFunds", s2)
        ELSE Outcome("Ok", [s2 EXCEPT !.lamports[payer] = @ - amount,
                                      !.vault = @ + amount])

\* mutant: require!(amount > 0, ..) added at the top of the handler
receive_payment_nonzero(st, payer, record_key, amount, now) ==
    IF ~(amount > 0)
    THEN Outcome("InvalidAmount", st)
    ELSE LET s1 == [st EXCEPT
                      !.payment_state.total_payments = (@ + 1) % (U64Max + 1)]
             s2 == [s1 EXCEPT !.payment_record[record_key] =
                       [payment_id |-> s1.payment_state.total_payments,
                        payer      |-> payer,
                        amount     |-> amount,
                        timestamp  |-> now]]
         IN  IF s2.lamports[payer] < amount
             THEN Outcome("InsufficientFunds", s2)
             ELSE Outcome("Ok", [s2 EXCEPT !.lamports[payer] = @ - amount,
                                           !.vault = @ + amount])

\* fn receive_payment
receive_payment(st, payer, record_key, amount, now) ==
    LET s1 == [st EXCEPT !.payment_state.total_payments = wrapping_add(@, 1)]
        s2 == [s1 EXCEPT !.payment_record[record_key] =
                  [payment_id |-> s1.payment_state.total_payments,
                   payer      |-> payer,
                   amount     |-> amount,
                   timestamp  |-> now]]
    IN  system_transfer(s2, payer, amount)

ReceivePaymentIx(st, payer, record_key, amount, now) ==
    LET v == ReceivePaymentAccounts(st, payer, record_key)
    IN  IF v.res # "Ok" THEN v
        ELSE receive_payment(v.st, payer, record_key, amount, now)

\* ----------------------------------------------------------------- withdraw
\* mutant: has_one = owner left out
OwnerAccounts_no_has_one(st, signer, owner) ==
    IF st.payment_state = NoAccount
    THEN Outcome("AccountNotInitialized", st)
    ELSE IF owner # signer
    THEN Outcome("AccountNotSigner", st)
    ELSE Outcome("Ok", st)

\* #[derive(Accounts)] Withdraw and TransferOwnership: payment_state exists,
\* owner is a Signer, has_one = owner.  signer is the key that signed the
\* transaction, owner the account passed in the owner slot.
OwnerAccounts(st, signer, owner) ==
    IF st.payment_state = NoAccount
    THEN Outcome("AccountNotInitialized", st)
    ELSE IF owner # signer
    THEN Outcome("AccountNotSigner", st)
    ELSE IF st.payment_state.owner # owner
    THEN Outcome("ConstraintHasOne", st)
    ELSE Outcome("Ok", st)

\* the program that owns the vault: it is a SystemAccount, and no instruction
\* assigns it to the program
VaultOwner == SystemProgram

\* mutant: require!(vault_balance > 0, ..) left out
withdraw_no_require(st, owner) ==
    LET vault_balance == st.vault
        s1 == [st EXCEPT !.vault = @ - vault_balance,
                         !.lamports[owner] = @ + vault_balance]
    IN  Outcome(IF VaultOwner # ProgramId /\ s1.vault < st.vault
                THEN "ExternalAccountLamportSpend" ELSE "Ok", s1)

\* the runtime's check of the lamports the handler wrote directly
\* (try_borrow_mut_lamports): an account the program does not own cannot
\* have its balance decrease
LamportsVerify(pre, post) ==
    IF VaultOwner # ProgramId /\ post.vault < pre.vault
    THEN "ExternalAccountLamportSpend"
    ELSE "Ok"

\* fn withdraw
withdraw(st, owner) ==
    LET vault_balance == st.vault
    IN  IF ~(vault_balance > 0)
        THEN Outcome("NoFundsToWithdraw", st)
        ELSE LET s1 == [st EXCEPT !.vault = @ - vault_balance,
                                  !.lamports[owner] = @ + vault_balance]
             IN  Outcome(LamportsVerify(st, s1), s1)

\* mutant: the empty-vault check made before the owner is verified
WithdrawIx_funds_first(st, signer, owner) ==
    IF st.payment_state = NoAccount
    THEN Outcome("AccountNotInitialized", st)
    ELSE IF ~(st.vault > 0)
    THEN Outcome("NoFundsToWithdraw", st)
    ELSE IF owner # signer
    THEN Outcome("AccountNotSigner", st)
    ELSE IF st.payment_state.owner # owner
    THEN Outcome("ConstraintHasOne", st)
    ELSE Outcome("ExternalAccountLamportSpend",
                 [st EXCEPT !.vault = 0, !.lamports[owner] = @ + st.vault])

WithdrawIx(st, signer, owner) ==
    LET v == OwnerAccounts(st, signer, owner)
    IN  IF v.res # "Ok" THEN v ELSE withdraw(v.st, owner)

\* ------------------------------------------------------- transfer_ownership
\* mutant: require!(new_owner != Pubkey::default(), ..) left out
transfer_ownership_no_require(st, new_owner) ==
    Outcome("Ok", [st EXCEPT !.payment_state.owner = new_owner])

\* mutant: the state rewritten as a whole, which resets the counter
transfer_ownership_reset(st, new_owner) ==
    IF ~(new_owner # Null)
    THEN Outcome("InvalidNewOwner", st)
    ELSE Outcome("Ok", [st EXCEPT
            !.payment_state = [owner |-> new_owner, total_payments |-> 0]])

\* fn transfer_ownership
transfer_ownership(st, new_owner) ==
    IF ~(new_owner # Null)
    THEN Outcome("InvalidNewOwner", st)
    ELSE Outcome("Ok", [st EXCEPT !.payment_state.owner = new_owner])

TransferOwnershipIx(st, signer, owner, new_owner) ==
    LET v == OwnerAccounts(st, signer, owner)
    IN  IF v.res # "Ok" THEN v ELSE transfer_ownership(v.st, new_owner)

\* ------------------------------------------------------------ state machine
Call(op, res) == [op |-> op, result |-> res]

\* the scenario after an instruction: a failed one leaves it, a successful
\* initialize(owner) starts it, a successful transfer_ownership to a key other
\* than the first owner continues it, any other successful instruction ends it
ScenarioAfter(op, res, arg) ==
    IF res # "Ok" THEN scenario
    ELSE IF op = "initialize" /\ scenario.stage = "start"
    THEN [stage |-> "initialized", a |-> arg]
    ELSE IF op = "transfer_ownership" /\ scenario.stage = "initialized"
            /\ arg # scenario.a
    THEN [stage |-> "transferred", a |-> scenario.a]
    ELSE [stage |-> "off", a |-> Null]

Init ==
    /\ payment_state = NoAccount
    /\ payment_record = [i \in RecordIds |-> NoAccount]
    /\ vault = 0
    /\ lamports = [s \in Signers |-> InitLamports]
    /\ clock = 0
    /\ last = Call("none", "Ok")
    /\ received = 0
    /\ withdrawn = 0
    /\ ok_receives = 0
    /\ scenario = [stage |-> "start", a |-> Null]

\* the accounts after the instruction, as the runtime leaves them
Store(post) ==
    /\ payment_state' = post.payment_state
    /\ payment_record' = post.payment_record
    /\ vault' = post.vault
    /\ lamports' = post.lamports

\* initialize(owner) in a transaction signed by payer
Initialize(payer, owner) ==
    LET out == InitializeIx(Accounts, payer, owner)
    IN  /\ Store(Commit(Accounts, out))
        /\ last' = Call("initialize", out.res)
        /\ scenario' = ScenarioAfter("initialize", out.res, owner)
        /\ UNCHANGED <<clock, received, withdrawn, ok_receives>>

\* receive_payment(amount) in a transaction signed by payer, passing the
\* address derived from record_key as payment_record
ReceivePayment(payer, record_key, amount) ==
    LET out == ReceivePaymentIx(Accounts, payer, record_key, amount, clock)
    IN  /\ Store(Commit(Accounts, out))
        /\ last' = Call("receive_payment", out.res)
        /\ scenario' = ScenarioAfter("receive_payment", out.res, Null)
        /\ received' = IF out.res = "Ok" THEN received + amount ELSE received
        /\ ok_receives' = IF out.res = "Ok" THEN ok_receives + 1 ELSE ok_receives
        /\ UNCHANGED <<clock, withdrawn>>

\* withdraw() in a transaction signed by signer, passing owner as the owner
Withdraw(signer, owner) ==
    LET out == WithdrawIx(Accounts, signer, owner)
    IN  /\ Store(Commit(Accounts, out))
        /\ last' = Call("withdraw", out.res)
        /\ scenario' = ScenarioAfter("withdraw", out.res, Null)
        /\ withdrawn' = IF out.res = "Ok" THEN withdrawn + vault ELSE withdrawn
        /\ UNCHANGED <<clock, received, ok_receives>>

\* transfer_ownership(new_owner) in a transaction signed by signer, passing
\* owner as the owner
TransferOwnership(signer, owner, new_owner) ==
    LET out == TransferOwnershipIx(Accounts, signer, owner, new_owner)
    IN  /\ Store(Commit(Accounts, out))
        /\ last' = Call("transfer_ownership", out.res)
        /\ scenario' = ScenarioAfter("transfer_ownership", out.res, new_owner)
        /\ UNCHANGED <<clock, received, withdrawn, ok_receives>>

\* the ledger clock advances between instructions
Tick ==
    /\ clock < MaxClock
    /\ clock' = clock + 1
    /\ UNCHANGED <<payment_state, payment_record, vault, lamports, last,
                   received, withdrawn, ok_receives, scenario>>

Next ==
    \/ \E p \in Signers, o \in Pubkeys : Initialize(p, o)
    \/ \E p \in Signers, k \in RecordIds, a \in Amounts : ReceivePayment(p, k, a)
    \/ \E s \in Signers, o \in Pubkeys : Withdraw(s, o)
    \/ \E s \in Signers, o \in Pubkeys, n \in Pubkeys : TransferOwnership(s, o, n)
    \/ Tick

Spec == Init /\ [][Next]_vars

\* ------------------------------------------------------------------ claims
\* The specification's names for the errors the program and its runtime return.
\* Unauthorized: the owner passed did not sign, or is not payment_state.owner
Unauthorized == {"AccountNotSigner", "ConstraintHasOne"}
\* AlreadyInitialized: `init` found the account in use
AlreadyInitialized == {"AccountAlreadyInUse"}
\* CounterOverflow: checked_add(1).unwrap() panicked
CounterOverflow == {"ProgramFailedToComplete"}

Initialized == payment_state # NoAccount

\* the ids whose PaymentRecord account exists
Existing == {i \in RecordIds : payment_record[i] # NoAccount}

\* the accounts: everything an instruction can change
accounts == <<payment_state, payment_record, vault, lamports>>

\* the step executes the named instruction, with any signer and arguments
\* (Tick is the one step that changes the clock, and it keeps last)
Executes(op) == last'.op = op /\ clock' = clock

\* C1: in every reachable state the vault balance equals the sum of the amounts
\* of the successful receive_payment calls minus the sum moved out by the
\* successful withdraw calls, and is never negative.
C1_VaultBalance ==
    /\ vault = received - withdrawn
    /\ vault >= 0

\* C1 witness: two payments of 1 and 2 were received and a withdraw was then
\* attempted.
C1_Witness ==
    /\ ok_receives = 2
    /\ received = 3
    /\ vault = 3
    /\ last.op = "withdraw"

\* C2: payment_count equals the number of successful receive_payment calls, and
\* the payment_id values of the existing records are exactly 1..payment_count,
\* one record per id.
C2_DenseIds ==
    LET n == IF Initialized THEN payment_state.total_payments ELSE 0
    IN  /\ n = ok_receives
        /\ {payment_record[i].payment_id : i \in Existing} = 1 .. n
        /\ Cardinality(Existing) = n
        /\ \A i \in Existing : payment_record[i].payment_id = i

\* C2 witness: the second payment has just been recorded.
C2_Witness ==
    /\ Initialized
    /\ payment_state.total_payments = 2
    /\ last = Call("receive_payment", "Ok")
    /\ Existing = {1, 2}

\* C3: withdraw and transfer_ownership signed by anyone other than the stored
\* authority are rejected as Unauthorized and change no account.  Stated per
\* step: a withdraw or transfer_ownership step is such a rejection, or else it
\* is not the step of any call signed by a non-authority.
C3_Unauthorized ==
    [][LET rejected == last'.result \in Unauthorized /\ UNCHANGED accounts
           others == Signers \ {payment_state.owner}
       IN  /\ (Initialized /\ Executes("withdraw"))
              => \/ rejected
                 \/ \A s \in others, o \in Pubkeys : ~Withdraw(s, o)
           /\ (Initialized /\ Executes("transfer_ownership"))
              => \/ rejected
                 \/ \A s \in others, o \in Pubkeys, n \in Pubkeys :
                       ~TransferOwnership(s, o, n)]_vars

\* C3 witness: a payer deposited, and a withdraw was rejected as Unauthorized
\* with the deposit still in the vault.
C3_Witness ==
    /\ last.op = "withdraw"
    /\ last.result \in Unauthorized
    /\ vault > 0
    /\ ok_receives = 1

RECURSIVE SumAmounts(_)
SumAmounts(S) ==
    IF S = {} THEN 0
    ELSE LET i == CHOOSE x \in S : TRUE
         IN  payment_record[i].amount + SumAmounts(S \ {i})

\* C5: receive_payment is all-or-nothing.  A failed call changes no account
\* (counter, records, vault and payer balances), and in every reachable state
\* the records and the funds moved match: one record per successful call, and
\* the recorded amounts add up to the lamports moved into the vault.
C5_AllOrNothing ==
    /\ [](/\ Cardinality(Existing) = ok_receives
          /\ SumAmounts(Existing) = vault + withdrawn)
    /\ [][(Executes("receive_payment") /\ last'.result # "Ok")
          => UNCHANGED accounts]_vars

\* C5 witness: a receive_payment failed with InsufficientFunds although every
\* signer could pay the record's rent, so it failed in the transfer, after the
\* record was created and the counter incremented.
C5_Witness ==
    /\ Initialized
    /\ last = Call("receive_payment", "InsufficientFunds")
    /\ \A p \in Signers : lamports[p] >= RecordRent
    /\ payment_state.total_payments < U64Max

\* C6: withdraw by the current authority with an empty vault fails with
\* NoFundsToWithdraw and changes no account.
C6_NoFunds ==
    [][(Initialized /\ vault = 0 /\ Executes("withdraw"))
       => \A s \in Signers :
             (s = payment_state.owner /\ Withdraw(s, s))
             => ( /\ last'.result = "NoFundsToWithdraw"
                  /\ UNCHANGED accounts )]_vars

\* C6 witness: a withdraw was rejected with NoFundsToWithdraw.
C6_Witness ==
    /\ last = Call("withdraw", "NoFundsToWithdraw")
    /\ vault = 0

\* C7: transfer_ownership to the null identity, called by the current
\* authority, fails with InvalidNewOwner; and whoever calls it, the call fails
\* and the stored authority is the same after it.  Stated per step: a
\* transfer_ownership step has that outcome, or else it is not the step of
\* such a call.
C7_InvalidNewOwner ==
    [][(Initialized /\ Executes("transfer_ownership"))
       => /\ \/ ( /\ last'.result = "InvalidNewOwner"
                  /\ payment_state'.owner = payment_state.owner )
             \/ \A s \in Signers \cap {payment_state.owner} :
                   ~TransferOwnership(s, s, Null)
          /\ \/ ( /\ last'.result # "Ok"
                  /\ payment_state'.owner = payment_state.owner )
             \/ \A s \in Signers, o \in Pubkeys :
                   ~TransferOwnership(s, o, Null)]_vars

\* C7 witness: a transfer_ownership was rejected with InvalidNewOwner.
C7_Witness ==
    /\ last = Call("transfer_ownership", "InvalidNewOwner")
    /\ payment_state.owner \in Signers

\* C8: with the counter at its maximum, receive_payment fails with
\* CounterOverflow: the counter keeps its value, no record is created and no
\* lamports move.
C8_CounterOverflow ==
    [][( /\ Initialized
         /\ payment_state.total_payments = U64Max
         /\ Executes("receive_payment") )
       => ( /\ last'.result \in CounterOverflow
            /\ UNCHANGED accounts )]_vars

\* C8 witness: a receive_payment was rejected at the maximum counter value.
C8_Witness ==
    /\ Initialized
    /\ payment_state.total_payments = U64Max
    /\ last.op = "receive_payment"
    /\ last.result \in CounterOverflow

\* C9: once payment_state exists, every initialize fails with
\* AlreadyInitialized and changes no account: the authority and the counter
\* are never reset.
C9_InitializeOnce ==
    [][(Initialized /\ Executes("initialize"))
       => ( /\ last'.result \in AlreadyInitialized
            /\ UNCHANGED accounts )]_vars

\* C9 witness: a second initialize was rejected after payments were counted.
C9_Witness ==
    /\ Initialized
    /\ last.op = "initialize"
    /\ last.result \in AlreadyInitialized
    /\ payment_state.total_payments > 0

\* C10: a successful transfer_ownership(new_owner) stores new_owner as the
\* authority and changes nothing else.
C10_TransferFrame ==
    [][(Executes("transfer_ownership") /\ last'.result = "Ok")
       => \A s \in Signers, o \in Pubkeys, n \in Pubkeys :
             TransferOwnership(s, o, n)
             => ( /\ payment_state'.owner = n
                  /\ payment_state'.total_payments = payment_state.total_payments
                  /\ UNCHANGED <<payment_record, vault, lamports>> )]_vars

\* C10 witness: ownership was transferred to B with payments counted and
\* lamports in the vault.
C10_Witness ==
    /\ last = Call("transfer_ownership", "Ok")
    /\ payment_state.owner = "B"
    /\ payment_state.total_payments > 0
    /\ vault > 0

\* payment_count: the counter, 0 while payment_state does not exist
payment_count == IF Initialized THEN payment_state.total_payments ELSE 0

\* C11: in every step payment_count stays the same or increases by exactly 1;
\* it increases only in a successful receive_payment step, and never decreases.
C11_CounterSteps ==
    [][/\ payment_count' = payment_count \/ payment_count' = payment_count + 1
       /\ payment_count' # payment_count
          => (Executes("receive_payment") /\ last'.result = "Ok")
       /\ (Executes("receive_payment") /\ last'.result = "Ok")
          => payment_count' = payment_count + 1]_vars

\* C11 witness: with two payments counted, an initialize was attempted and the
\* counter still stands at 2.
C11_Witness ==
    /\ payment_count = 2
    /\ last.op = "initialize"
    /\ ok_receives = 2

\* C12: PaymentRecords are append-only and immutable: a record that exists is
\* the same record, at the same address, after every step.
C12_RecordsImmutable ==
    [][\A i \in RecordIds :
          payment_record[i] # NoAccount => payment_record'[i] = payment_record[i]]_vars

\* C12 witness: record 1 was written at time 0, record 2 after it at time 1,
\* and ownership was transferred since; record 1 still holds its id.
C12_Witness ==
    /\ Existing = {1, 2}
    /\ payment_record[1].payment_id = 1
    /\ payment_record[1].timestamp = 0
    /\ payment_record[2].timestamp = 1
    /\ last = Call("transfer_ownership", "Ok")

\* C13 as stated: after initialize(A) and then transfer_ownership(B) by A, with
\* B different from A and no other successful instruction, a withdraw by A
\* fails with Unauthorized and a withdraw by B succeeds.
C13_ScenarioWithdrawSucceeds ==
    [][(scenario.stage = "transferred" /\ Executes("withdraw"))
       => \A s \in Signers :
             Withdraw(s, s)
             => /\ s = scenario.a => last'.result \in Unauthorized
                /\ s = payment_state.owner => last'.result = "Ok"]_vars

\* C13 amended: in that scenario the vault is empty, so a withdraw by A fails
\* with Unauthorized and a withdraw by B passes the authorization and fails
\* with NoFundsToWithdraw; neither changes an account.
C13_ScenarioWithdraw ==
    [][(scenario.stage = "transferred" /\ Executes("withdraw"))
       => /\ vault = 0
          /\ payment_state.owner # scenario.a
          /\ UNCHANGED accounts
          /\ \A s \in Signers :
                Withdraw(s, s)
                => /\ s = scenario.a => last'.result \in Unauthorized
                   /\ s = payment_state.owner
                         => last'.result = "NoFundsToWithdraw"]_vars

\* C13 witness: A initialized, transferred ownership to B, and B's withdraw was
\* rejected for lack of funds.
C13_Witness ==
    /\ scenario = [stage |-> "transferred", a |-> "A"]
    /\ payment_state.owner = "B"
    /\ last = Call("withdraw", "NoFundsToWithdraw")

\* C14: a successful receive_payment(amount) signed by P from a state with
\* payment_count = n creates exactly one record, at the address derived from
\* n + 1, with payment_id = n + 1, payer = P and amount = amount (and the
\* clock's timestamp); and every existing record holds the id its address was
\* derived from.
C14_RecordFields ==
    /\ [](\A i \in Existing : payment_record[i].payment_id = i)
    /\ [][(Executes("receive_payment") /\ last'.result = "Ok")
          => \A p \in Signers, k \in RecordIds, a \in Amounts :
                ReceivePayment(p, k, a)
                => LET id == payment_count + 1
                   IN  /\ k = id
                       /\ id \notin Existing
                       /\ Existing' = Existing \cup {id}
                       /\ payment_record'[id] =
                             [payment_id |-> id, payer |-> p, amount |-> a,
                              timestamp |-> clock]]_vars

\* C14 witness: B's payment of 2 was recorded as record 2 at time 1.
C14_Witness ==
    /\ last = Call("receive_payment", "Ok")
    /\ payment_count = 2
    /\ payment_record[2] =
          [payment_id |-> 2, payer |-> "B", amount |-> 2, timestamp |-> 1]

\* C15: the vault balance decreases, and an identity's balance increases, only
\* in a successful withdraw step signed by the authority stored before the
\* step, and then the whole decrease is credited to that signer; no other
\* step lowers the vault or credits anybody.
C15_VaultOnlyWithdraw ==
    [][(vault' < vault \/ \E s \in Signers : lamports'[s] > lamports[s])
       => /\ Initialized
          /\ Executes("withdraw")
          /\ last'.result = "Ok"
          /\ payment_state.owner \in Signers
          /\ Withdraw(payment_state.owner, payment_state.owner)
          /\ lamports'[payment_state.owner] - lamports[payment_state.owner]
                = vault - vault'
          /\ \A s \in Signers \ {payment_state.owner} :
                lamports'[s] = lamports[s]]_vars

\* C15 witness: with 3 lamports in the vault, a receive_payment failed, and
\* before it withdraws and transfers were attempted; the vault still holds
\* everything received.
C15_Witness ==
    /\ vault = 3
    /\ received = 3
    /\ last.op = "receive_payment"
    /\ last.result # "Ok"
    /\ payment_state.owner = "B"

\* C16: the authorization check runs before the instruction's own checks: a
\* withdraw signed by a non-authority with an empty vault is rejected as
\* Unauthorized, not NoFundsToWithdraw, and a transfer_ownership to the null
\* identity signed by a non-authority is rejected as Unauthorized, not
\* InvalidNewOwner.  Stated per step: such a step is an Unauthorized rejection,
\* or else it is not the step of any call signed by a non-authority.
C16_AuthorizationFirst ==
    [][LET others == Signers \ {payment_state.owner}
       IN  /\ (Initialized /\ vault = 0 /\ Executes("withdraw"))
              => \/ last'.result \in Unauthorized
                 \/ \A s \in others, o \in Pubkeys : ~Withdraw(s, o)
           /\ (Initialized /\ Executes("transfer_ownership"))
              => \/ last'.result \in Unauthorized
                 \/ \A s \in others, o \in Pubkeys :
                       ~TransferOwnership(s, o, Null)]_vars

\* C16 witness: with an empty vault a withdraw was rejected because the
\* signer is not the stored owner.
C16_Witness ==
    /\ Initialized
    /\ vault = 0
    /\ last = Call("withdraw", "ConstraintHasOne")

\* C17: receive_payment(0) is not rejected.  In every initialized state below
\* the counter's maximum, the call signed by a payer who can pay the record's
\* rent returns Ok, increments payment_count by 1 and creates the record with
\* amount = 0, and leaves the vault balance as it was; and every step that
\* records an amount of 0 does so.
C17_ZeroPayment ==
    /\ []((Initialized /\ payment_count < U64Max)
          => \A p \in Signers :
                lamports[p] >= RecordRent
                => LET id == payment_count + 1
                       out == ReceivePaymentIx(Accounts, p, id, 0, clock)
                       post == Commit(Accounts, out)
                   IN  /\ out.res = "Ok"
                       /\ post.payment_state.total_payments = id
                       /\ post.payment_record[id].amount = 0
                       /\ post.vault = vault)
    /\ [][( /\ Executes("receive_payment")
            /\ last'.result = "Ok"
            /\ payment_record'[payment_count + 1].amount = 0 )
          => ( /\ payment_count' = payment_count + 1
               /\ vault' = vault )]_vars

\* C17 witness: the first payment was a payment of 0: it is recorded and
\* counted, and the vault is still empty.
C17_Witness ==
    /\ last = Call("receive_payment", "Ok")
    /\ payment_count = 1
    /\ payment_record[1].amount = 0
    /\ vault = 0

\* C18: while no PaymentState account exists, every receive_payment, withdraw
\* and transfer_ownership call, by any caller and with any arguments, fails
\* and changes nothing: no record is created, no balance moves, and no
\* authority or counter comes into existence.
C18_BeforeInitialize ==
    [][( /\ ~Initialized
         /\ \/ Executes("receive_payment")
            \/ Executes("withdraw")
            \/ Executes("transfer_ownership") )
       => ( /\ last'.result = "AccountNotInitialized"
            /\ ~Initialized'
            /\ Existing' = {}
            /\ UNCHANGED accounts )]_vars

\* C18 witness: a payment was attempted before initialize and rejected, and
\* there is still no state account, no record and nothing in the vault.
C18_Witness ==
    /\ ~Initialized
    /\ last = Call("receive_payment", "AccountNotInitialized")
    /\ Existing = {}
    /\ vault = 0

\* C19: two receive_payment invocations prepared against the same observed
\* payment_count n, both passing the record derived from n+1, executed one
\* after the other in either order, where at least one of them can succeed:
\* exactly one succeeds, the other is rejected with no state change, and the
\* result is payment_count = n+1 with exactly one new record, of id n+1, and
\* the vault credited with only the successful call's amount.
C19_SerializedRace ==
    (Initialized /\ payment_count < U64Max)
    => \A p1 \in Signers, p2 \in Signers, a1 \in Amounts, a2 \in Amounts :
          LET k      == payment_count + 1
              out1   == ReceivePaymentIx(Accounts, p1, k, a1, clock)
              post1  == Commit(Accounts, out1)
              out2   == ReceivePaymentIx(post1, p2, k, a2, clock)
              post2  == Commit(post1, out2)
              alone2 == ReceivePaymentIx(Accounts, p2, k, a2, clock)
          IN  (out1.res = "Ok" \/ alone2.res = "Ok")
              => /\ (out1.res = "Ok") # (out2.res = "Ok")
                 /\ out1.res # "Ok" => post1 = Accounts
                 /\ out2.res # "Ok" => post2 = post1
                 /\ out1.res = "Ok"
                    => out2.res \in {"ConstraintSeeds", "ProgramFailedToComplete"}
                 /\ post2.payment_state.total_payments = k
                 /\ k \notin Existing
                 /\ {i \in RecordIds : post2.payment_record[i] # NoAccount}
                       = Existing \cup {k}
                 /\ post2.payment_record[k].payment_id = k
                 /\ post2.vault = vault + (IF out1.res = "Ok" THEN a1 ELSE a2)

\* C19 witness: after the first payment was recorded, an invocation that
\* passed a record other than the one derived from payment_count + 1 was
\* rejected: there is one record, and the vault holds that payment only.
C19_Witness ==
    /\ last = Call("receive_payment", "ConstraintSeeds")
    /\ payment_count = 1
    /\ Existing = {1}
    /\ ok_receives = 1
    /\ vault = payment_record[1].amount
    /\ vault > 0

\* C20: funds are never locked away from the authority.  In every reachable
\* initialized state with vault balance > 0, the withdraw call signed by the
\* key stored as owner succeeds and leaves the vault at 0.
C20_WithdrawEnabled ==
    (Initialized /\ vault > 0 /\ payment_state.owner \in Signers)
    => LET o   == payment_state.owner
           out == WithdrawIx(Accounts, o, o)
       IN  /\ out.res = "Ok"
           /\ Commit(Accounts, out).vault = 0

\* C20: what the program does instead.  Everything ever received is still in
\* the vault after the stored owner's withdraw, which the runtime rejected.
C20_FundsLocked ==
    /\ Initialized
    /\ payment_state.owner \in Signers
    /\ last = Call("withdraw", "ExternalAccountLamportSpend")
    /\ withdrawn = 0
    /\ received > 0
    /\ vault = received

=============================================================================
